---------------------------- MODULE Spec2Model ----------------------------
(***************************************************************************)
(* The token streaming contract SPL/contracts/stream copy.clar as a state  *)
(* machine.  Every public function is one atomic action: a call that ends  *)
(* in (err ...) or in a runtime error leaves the chain state as it was.    *)
(* Calls are direct calls by standard principals, so contract-caller and   *)
(* tx-sender are the same account.                                         *)
(*                                                                         *)
(* Next to it, the registration contract contracts/tycoon.clar and the     *)
(* React hook useStacks of its frontend, each with its own variables and   *)
(* its own specification.                                                  *)
(***************************************************************************)
EXTENDS Integers, Sequences, FiniteSets, Bags, TLC

\* ------------------------------------------------------------------ bounds
MaxStreams == 2
MaxHeight == 3
MaxAmount == 1
MaxRate == 1
MaxSigs == 1
MaxDeposits == 2
MaxStxBalance == 1
MaxPending == 4

\* Block numbers a timeframe may name, and every account's opening balance.
MaxBlock == MaxHeight - 1
InitialStx == MaxAmount + 1

\* ------------------------------------------------------- error constants
ERR_UNAUTHORIZED == 0
ERR_INVALID_SIGNATURE == 1
ERR_STREAM_STILL_ACTIVE == 2
ERR_INVALID_STREAM_ID == 3
ERR_INVALID_AMOUNT == 4
ERR_INVALID_TIMEFRAME == 5

\* contracts/tycoon.clar
ERR_ALREADY_REGISTERED == 100
ERR_USERNAME_TAKEN == 101
ERR_INVALID_USERNAME == 102
\* The longest value of the type (string-ascii 32).
MaxUsernameLength == 32

\* Failure codes of the built-in stx-transfer?.
STX_NOT_ENOUGH_BALANCE == 1
STX_SENDER_IS_RECIPIENT == 2
STX_NON_POSITIVE_AMOUNT == 3

\* ------------------------------------------------------------- principals
\* wallet_1, wallet_2, wallet_3 of the test-suite and the contract itself.
Principals == {"wallet_1", "wallet_2", "wallet_3"}
Contract == "stream"
NoPrincipal == "none"
\* What signature recovery yields for a signature made over another message.
Stranger == "stranger"

\* The inputs the actions draw from.
Funders == {"wallet_1"}
Beneficiaries == {"wallet_1", "wallet_2"}
StreamIds == 0..(MaxStreams - 1)
Amounts == 0..MaxAmount
Rates == 0..MaxRate
Blocks == 0..MaxBlock
Timeframes == [start_block : Blocks, stop_block : Blocks]
Jumps == 1..2
CreateTimeframes == {tf \in Timeframes : tf.stop_block = MaxBlock /\ tf.start_block \in {0, MaxBlock}}
CreateRates == {r \in Rates : r > 0}
ProposalTimeframes == {tf \in Timeframes : tf.start_block <= 1 /\ tf.stop_block >= 1}
PairTimeframes == {tf \in Timeframes : tf.start_block = 0 /\ tf.stop_block > 0}
AnyOrderTimeframes == {tf \in Timeframes : tf.start_block = 1}

VARIABLES
    streams,            \* (define-map streams ...): stream-id -> stream tuple
    latest_stream_id,   \* (define-data-var latest-stream-id uint u0)
    stacks_block_height,\* the chain's block height
    stx,                \* STX balance of every account, the contract included
    signatures,         \* consent signatures produced off-chain so far
    ledger,             \* per stream: STX deposited, withdrawn and refunded
    last,               \* the last call and its response
    users,              \* tycoon: (define-map users principal {...})
    usernames,          \* tycoon: (define-map usernames (string-ascii 32) principal)
    tycoon_last,        \* tycoon: the last call and its response
    userData,           \* hook: useState<UserData | null>(null)
    stxBalance,         \* hook: useState(0)
    network,            \* hook: useState<Network>(null)
    tycoonUser,         \* hook: useState<User | null>(null)
    mounted,            \* hook: the mount effect has run
    effect_due,         \* hook: userData changed, its effect has yet to run
    pending,            \* hook: the bag of promises that have not settled yet
    intent              \* hook: what the user asked for last

stream_vars == <<streams, latest_stream_id, stacks_block_height, stx, signatures,
                 ledger, last>>
tycoon_vars == <<users, usernames, tycoon_last>>
hook_vars == <<userData, stxBalance, network, tycoonUser, mounted, effect_due,
               pending, intent>>
vars == <<stream_vars, tycoon_vars, hook_vars>>

\* --------------------------------------------------------------- responses
Ok(v) == [kind |-> "ok", val |-> v]
Err(c) == [kind |-> "err", val |-> c]
\* A runtime error (ArithmeticUnderflow) aborts the transaction.
RuntimeError == [kind |-> "runtime", val |-> 0]
\* (ok true)
OkTrue == [kind |-> "ok", val |-> 1]
\* What a read-only function returns: a bare value, true as 1 and false as 0.
Value(v) == [kind |-> "value", val |-> v]

NoTimeframe == [start_block |-> 0, stop_block |-> 0]
NoStream == [sender |-> NoPrincipal, recipient |-> NoPrincipal, balance |-> 0,
             withdrawn_balance |-> 0, payment_per_block |-> 0,
             timeframe |-> NoTimeframe]
\* A buffer that is no signature of anything: recovery fails on it.
BadSig == [key |-> NoPrincipal, msg |-> <<>>, stream_id |-> 0,
           payment_per_block |-> 0, timeframe |-> NoTimeframe]

\* ------------------------------------------------------------ stx-transfer?
\* (stx-transfer? amount from to): the checks of the built-in, in its order.
stx_transfer(amount, from, to) ==
    IF amount = 0 THEN Err(STX_NON_POSITIVE_AMOUNT)
    ELSE IF from = to THEN Err(STX_SENDER_IS_RECIPIENT)
    ELSE IF stx[from] < amount THEN Err(STX_NOT_ENOUGH_BALANCE)
    ELSE OkTrue

stx_moved(amount, from, to) ==
    [a \in DOMAIN stx |->
        IF a = from /\ a = to THEN stx[a]
        ELSE IF a = from THEN stx[a] - amount
        ELSE IF a = to THEN stx[a] + amount
        ELSE stx[a]]

\* ----------------------------------------------------- vesting calculator
calculate_block_delta(timeframe) ==
    LET start_block == timeframe.start_block
        stop_block == timeframe.stop_block
    IN  IF stacks_block_height <= start_block THEN 0
        ELSE IF stacks_block_height < stop_block
             THEN stacks_block_height - start_block
             ELSE stop_block - start_block

\* calculate-block-delta ends in a runtime error when the uint subtraction of
\* the branch it takes underflows: (- stop-block start-block) at or past a
\* stop-block that lies before the start-block.
calculate_block_delta_underflows(timeframe) ==
    /\ ~(stacks_block_height <= timeframe.start_block)
    /\ ~(stacks_block_height < timeframe.stop_block)
    /\ timeframe.stop_block < timeframe.start_block

calculate_block_delta_response(timeframe) ==
    IF calculate_block_delta_underflows(timeframe) THEN RuntimeError
    ELSE Value(calculate_block_delta(timeframe))

\* block-delta * payment-per-block of a stored stream.
recipient_balance(stream) ==
    calculate_block_delta(stream.timeframe) * stream.payment_per_block

\* balance-of ends in a runtime error when block-delta, which its let binds
\* for every `who`, cannot be computed, or when one of its own uint
\* subtractions underflows; a missing stream yields u0 before any arithmetic.
\* Clarity evaluates only the branch of `if` that is taken.
balance_of_underflows(stream_id, who) ==
    /\ stream_id \in DOMAIN streams
    /\ LET stream == streams[stream_id]
       IN  \/ calculate_block_delta_underflows(stream.timeframe)
           \/ IF who = stream.recipient
              THEN stream.withdrawn_balance > recipient_balance(stream)
              ELSE IF who = stream.sender
                   THEN recipient_balance(stream) > stream.balance
                   ELSE FALSE

balance_of(stream_id, who) ==
    IF stream_id \notin DOMAIN streams THEN 0
    ELSE LET stream == streams[stream_id]
         IN  IF who = stream.recipient
             THEN recipient_balance(stream) - stream.withdrawn_balance
             ELSE IF who = stream.sender
                  THEN stream.balance - recipient_balance(stream)
                  ELSE 0

balance_of_response(stream_id, who) ==
    IF balance_of_underflows(stream_id, who) THEN RuntimeError
    ELSE Value(balance_of(stream_id, who))

\* ------------------------------------------------------- consent protocol
\* to-consensus-buff?: a type tag and, for a uint, its fixed-width value; a
\* tuple writes its length and then its fields in the order of their names.
to_consensus_buff_uint(n) == <<"uint", n>>

to_consensus_buff_principal(p) == <<"principal", p>>

to_consensus_buff_timeframe(timeframe) ==
    <<"tuple", 2, "start-block">>
        \o to_consensus_buff_uint(timeframe.start_block)
        \o <<"stop-block">>
        \o to_consensus_buff_uint(timeframe.stop_block)

to_consensus_buff_stream(stream) ==
    <<"tuple", 6, "balance">>
        \o to_consensus_buff_uint(stream.balance)
        \o <<"payment-per-block">>
        \o to_consensus_buff_uint(stream.payment_per_block)
        \o <<"recipient">>
        \o to_consensus_buff_principal(stream.recipient)
        \o <<"sender">>
        \o to_consensus_buff_principal(stream.sender)
        \o <<"timeframe">>
        \o to_consensus_buff_timeframe(stream.timeframe)
        \o <<"withdrawn-balance">>
        \o to_consensus_buff_uint(stream.withdrawn_balance)

\* sha256 is collision free: a digest is told by the bytes it was made of.
sha256(bytes) == [sha256 |-> bytes]

\* (sha256 0), the digest hash-stream gives for a stream that does not exist.
sha256_of_zero == sha256(<<"int", 0>>)

\* The message hash-stream hashes.  The stream-id is not part of it.
\* A message that leaves the proposed timeframe out.
hash_stream_msg_without_timeframe(stream, new_payment_per_block, new_timeframe) ==
    to_consensus_buff_stream(stream)
        \o to_consensus_buff_uint(new_payment_per_block)

\* A message that takes the stored balance as 0 whatever it is.
hash_stream_msg_without_balance(stream, new_payment_per_block, new_timeframe) ==
    to_consensus_buff_stream([stream EXCEPT !.balance = 0])
        \o to_consensus_buff_uint(new_payment_per_block)
        \o to_consensus_buff_timeframe(new_timeframe)

hash_stream_msg(stream, new_payment_per_block, new_timeframe) ==
    to_consensus_buff_stream(stream)
        \o to_consensus_buff_uint(new_payment_per_block)
        \o to_consensus_buff_timeframe(new_timeframe)

\* hash-stream that hashes the proposal alone for a stream that is missing.
hash_stream_proposal_when_missing(stream_id, new_payment_per_block, new_timeframe) ==
    IF stream_id \notin DOMAIN streams
    THEN sha256(to_consensus_buff_uint(new_payment_per_block)
                    \o to_consensus_buff_timeframe(new_timeframe))
    ELSE sha256(hash_stream_msg(streams[stream_id], new_payment_per_block,
                                new_timeframe))

hash_stream(stream_id, new_payment_per_block, new_timeframe) ==
    IF stream_id \notin DOMAIN streams THEN sha256_of_zero
    ELSE sha256(hash_stream_msg(streams[stream_id], new_payment_per_block,
                                new_timeframe))

\* secp256k1-recover? and principal-of?: the key that signed `hash`, some
\* unrelated key when the signature was made over another hash, and a
\* failure (NoPrincipal) when the buffer is no signature.
secp256k1_recover(hash, signature) ==
    IF signature.key = NoPrincipal THEN NoPrincipal
    ELSE IF signature.msg = hash THEN signature.key
    ELSE Stranger

\* validate-signature that accepts whatever key the signature recovers to.
validate_signature_any_signer(hash, signature, signer) ==
    secp256k1_recover(hash, signature) # NoPrincipal

validate_signature(hash, signature, signer) ==
    LET recovered == secp256k1_recover(hash, signature)
    IN  IF recovered = NoPrincipal THEN FALSE ELSE recovered = signer

validate_signature_response(hash, signature, signer) ==
    Value(IF validate_signature(hash, signature, signer) THEN 1 ELSE 0)

\* -------------------------------------------------------- public functions
\* Each *_response is the value the call returns, computed in the order of
\* the function's let bindings, asserts! and try!.
\* stream-to that looks at the amount before it looks at the timeframe.
stream_to_response_amount_first(caller, recipient, initial_balance, timeframe, payment_per_block) ==
    IF ~(initial_balance > 0) THEN Err(ERR_INVALID_AMOUNT)
    ELSE IF ~(timeframe.stop_block > timeframe.start_block)
    THEN Err(ERR_INVALID_TIMEFRAME)
    ELSE LET moved == stx_transfer(initial_balance, caller, Contract)
         IN  IF moved.kind # "ok" THEN moved ELSE Ok(latest_stream_id)

stream_to_response(caller, recipient, initial_balance, timeframe, payment_per_block) ==
    IF ~(timeframe.stop_block > timeframe.start_block)
    THEN Err(ERR_INVALID_TIMEFRAME)
    ELSE IF ~(initial_balance > 0) THEN Err(ERR_INVALID_AMOUNT)
    ELSE LET moved == stx_transfer(initial_balance, caller, Contract)
         IN  IF moved.kind # "ok" THEN moved ELSE Ok(latest_stream_id)

\* A new stream whose sender is the recipient instead of the caller.
stream_to_stream_sender_is_recipient(caller, recipient, initial_balance, timeframe, payment_per_block) ==
    [sender |-> recipient, recipient |-> recipient, balance |-> initial_balance,
     withdrawn_balance |-> 0, payment_per_block |-> payment_per_block,
     timeframe |-> timeframe]

stream_to_stream(caller, recipient, initial_balance, timeframe, payment_per_block) ==
    [sender |-> caller, recipient |-> recipient, balance |-> initial_balance,
     withdrawn_balance |-> 0, payment_per_block |-> payment_per_block,
     timeframe |-> timeframe]

\* refuel that looks at the amount before it looks at the caller.
refuel_response_amount_first(caller, stream_id, amount) ==
    IF stream_id \notin DOMAIN streams THEN Err(ERR_INVALID_STREAM_ID)
    ELSE IF ~(amount > 0) THEN Err(ERR_INVALID_AMOUNT)
    ELSE IF caller # streams[stream_id].sender THEN Err(ERR_UNAUTHORIZED)
    ELSE LET moved == stx_transfer(amount, caller, Contract)
         IN  IF moved.kind # "ok" THEN moved ELSE Ok(amount)

refuel_response(caller, stream_id, amount) ==
    IF stream_id \notin DOMAIN streams THEN Err(ERR_INVALID_STREAM_ID)
    ELSE IF caller # streams[stream_id].sender THEN Err(ERR_UNAUTHORIZED)
    ELSE IF ~(amount > 0) THEN Err(ERR_INVALID_AMOUNT)
    ELSE LET moved == stx_transfer(amount, caller, Contract)
         IN  IF moved.kind # "ok" THEN moved ELSE Ok(amount)

\* refuel that stores the amount as the balance instead of adding it.
refuel_stream_overwrites(stream, amount) ==
    [stream EXCEPT !.balance = amount]

refuel_stream(stream, amount) ==
    [stream EXCEPT !.balance = @ + amount]

\* withdraw that does not pass a failure of its transfer on to the caller.
withdraw_response_ignoring_transfer(caller, stream_id) ==
    IF stream_id \notin DOMAIN streams THEN Err(ERR_INVALID_STREAM_ID)
    ELSE IF balance_of_underflows(stream_id, caller) THEN RuntimeError
    ELSE IF caller # streams[stream_id].recipient THEN Err(ERR_UNAUTHORIZED)
    ELSE Ok(balance_of(stream_id, caller))

withdraw_response(caller, stream_id) ==
    IF stream_id \notin DOMAIN streams THEN Err(ERR_INVALID_STREAM_ID)
    ELSE IF balance_of_underflows(stream_id, caller) THEN RuntimeError
    ELSE IF caller # streams[stream_id].recipient THEN Err(ERR_UNAUTHORIZED)
    ELSE LET balance == balance_of(stream_id, caller)
             moved == stx_transfer(balance, Contract,
                                   streams[stream_id].recipient)
         IN  IF moved.kind # "ok" THEN moved ELSE Ok(balance)

\* withdraw that stores the payout as withdrawn-balance instead of adding it.
withdraw_stream_overwrites(stream, balance) ==
    [stream EXCEPT !.withdrawn_balance = balance]

withdraw_stream(stream, balance) ==
    [stream EXCEPT !.withdrawn_balance = @ + balance]

refund_response(caller, stream_id) ==
    IF stream_id \notin DOMAIN streams THEN Err(ERR_INVALID_STREAM_ID)
    ELSE LET stream == streams[stream_id]
         IN  IF balance_of_underflows(stream_id, stream.sender)
             THEN RuntimeError
             ELSE IF caller # stream.sender THEN Err(ERR_UNAUTHORIZED)
             ELSE IF ~(stream.timeframe.stop_block < stacks_block_height)
                  THEN Err(ERR_STREAM_STILL_ACTIVE)
             ELSE LET balance == balance_of(stream_id, stream.sender)
                  IN  IF balance > stream.balance THEN RuntimeError
                      ELSE LET moved == stx_transfer(balance, Contract,
                                                     stream.sender)
                           IN  IF moved.kind # "ok" THEN moved
                               ELSE Ok(balance)

\* refund that pays the sender without lowering the stored balance.
refund_stream_keeps_balance(stream, balance) == stream

refund_stream(stream, balance) ==
    [stream EXCEPT !.balance = @ - balance]

\* update-details that verifies the signature before it looks the stream up.
update_details_response_signature_first(caller, stream_id, payment_per_block, timeframe, signer, signature) ==
    IF ~validate_signature(
           hash_stream(stream_id, payment_per_block, timeframe),
           signature, signer)
    THEN Err(ERR_INVALID_SIGNATURE)
    ELSE IF stream_id \notin DOMAIN streams THEN Err(ERR_INVALID_STREAM_ID)
    ELSE IF ~(\/ streams[stream_id].sender = caller /\ streams[stream_id].recipient = signer
              \/ streams[stream_id].sender = signer /\ streams[stream_id].recipient = caller)
         THEN Err(ERR_UNAUTHORIZED)
         ELSE OkTrue

update_details_response(caller, stream_id, payment_per_block, timeframe, signer, signature) ==
    IF stream_id \notin DOMAIN streams THEN Err(ERR_INVALID_STREAM_ID)
    ELSE LET stream == streams[stream_id]
         IN  IF ~validate_signature(
                    hash_stream(stream_id, payment_per_block, timeframe),
                    signature, signer)
             THEN Err(ERR_INVALID_SIGNATURE)
             ELSE IF ~(\/ stream.sender = caller /\ stream.recipient = signer
                       \/ stream.sender = signer /\ stream.recipient = caller)
                  THEN Err(ERR_UNAUTHORIZED)
                  ELSE OkTrue

\* update-details that rebuilds the tuple and so resets what was withdrawn.
update_details_stream_resets(stream, payment_per_block, timeframe) ==
    [stream EXCEPT !.payment_per_block = payment_per_block,
                   !.timeframe = timeframe, !.withdrawn_balance = 0]

\* update-details that also exchanges the two parties of the stream.
update_details_stream_swaps_parties(stream, payment_per_block, timeframe) ==
    [stream EXCEPT !.payment_per_block = payment_per_block,
                   !.timeframe = timeframe,
                   !.sender = stream.recipient, !.recipient = stream.sender]

\* update-details that stores the new rate and keeps the old timeframe.
update_details_stream_keeps_timeframe(stream, payment_per_block, timeframe) ==
    [stream EXCEPT !.payment_per_block = payment_per_block]

update_details_stream(stream, payment_per_block, timeframe) ==
    [stream EXCEPT !.payment_per_block = payment_per_block,
                   !.timeframe = timeframe]

\* ------------------------------------------------------------------ state
Accounts == Principals \cup {Contract}

\* The record of a call: a call that committed is kept with its arguments, a
\* call that was rolled back with its response alone.
Call(op, caller, stream_id, signer, signature, result) ==
    IF result.kind = "ok"
    THEN [op |-> op, caller |-> caller, stream_id |-> stream_id,
          signer |-> signer, signature |-> signature, result |-> result]
    ELSE [op |-> op, caller |-> NoPrincipal, stream_id |-> 0,
          signer |-> NoPrincipal, signature |-> BadSig, result |-> result]

\* The map with `stream` stored under `stream_id` (map-set).
map_set(map, stream_id, stream) ==
    [i \in DOMAIN map \cup {stream_id} |->
        IF i = stream_id THEN stream ELSE map[i]]

\* ------------------------------------------------- registration contract
\* A username is a string: the sequence of its characters.  The type
\* (string-ascii 32) admits the empty string and at most 32 characters.
LongestUsername == [i \in 1..MaxUsernameLength |-> "x"]
Usernames == {<<>>, <<"A">>, <<"B">>, LongestUsername}

\* (map-set map key value)
tycoon_map_set(map, key, value) ==
    [k \in DOMAIN map \cup {key} |-> IF k = key THEN value ELSE map[k]]

is_registered(user) == user \in DOMAIN users

\* (map-get? users user): the entry, or none.
NoUser == [username |-> <<>>, registered_at |-> 0]
get_user(user) ==
    IF user \in DOMAIN users THEN [kind |-> "some", val |-> users[user]]
    ELSE [kind |-> "none", val |-> NoUser]

\* register that does not test whether the caller is registered already.
register_response_any_caller(caller, username) ==
    IF ~(Len(username) > 0 /\ Len(username) <= MaxUsernameLength)
    THEN Err(ERR_INVALID_USERNAME)
    ELSE IF username \in DOMAIN usernames
         THEN Err(ERR_USERNAME_TAKEN)
         ELSE OkTrue

\* register that does not test whether the username is taken.
register_response_any_username(caller, username) ==
    IF is_registered(caller) THEN Err(ERR_ALREADY_REGISTERED)
    ELSE IF ~(Len(username) > 0 /\ Len(username) <= MaxUsernameLength)
         THEN Err(ERR_INVALID_USERNAME)
         ELSE OkTrue

\* The response of register: the three asserts! in their order.
register_response(caller, username) ==
    IF is_registered(caller) THEN Err(ERR_ALREADY_REGISTERED)
    ELSE IF ~(Len(username) > 0 /\ Len(username) <= MaxUsernameLength)
         THEN Err(ERR_INVALID_USERNAME)
         ELSE IF username \in DOMAIN usernames
              THEN Err(ERR_USERNAME_TAKEN)
              ELSE OkTrue

\* The record of a call to the registration contract.
TycoonCall(op, caller, username, result) ==
    [op |-> op, caller |-> caller, username |-> username, result |-> result]

TycoonInit ==
    /\ users = [p \in {} |-> NoUser]
    /\ usernames = [u \in {} |-> NoPrincipal]
    /\ tycoon_last = TycoonCall("deploy", NoPrincipal, <<>>, OkTrue)

\* ------------------------------------------------------------ wallet hook
\* null, for network and tycoonUser, and null for userData.
Null == "null"
NullData == [session |-> FALSE, stx |-> <<>>]
\* What getLocalStorage() returns for a session: the first STX address, a
\* string; the empty string stands for a session without one.
Sessions == {[session |-> TRUE, stx |-> <<"S", "T", "1">>],
             [session |-> TRUE, stx |-> <<"S", "P", "1">>],
             [session |-> TRUE, stx |-> <<>>]}
\* What getStxBalance and getUser resolve to.
StxBalances == 0..MaxStxBalance
UserInfos == {Null, "AliceUser"}

\* stxAddress.startsWith("ST")
startsWith(string, prefix) ==
    /\ Len(string) >= Len(prefix)
    /\ SubSeq(string, 1, Len(prefix)) = prefix

\* handleUserData: the values of userData, network and tycoonUser after it.
handleUserData(data) ==
    IF data # NullData
    THEN IF data.stx # <<>>
         THEN [userData |-> data,
               network |-> IF startsWith(data.stx, <<"S", "T">>)
                           THEN "testnet" ELSE "mainnet",
               tycoonUser |-> tycoonUser]
         ELSE [userData |-> userData, network |-> network,
               tycoonUser |-> tycoonUser]
    ELSE [userData |-> NullData, network |-> Null, tycoonUser |-> Null]

\* Whether handleUserData(data) gives userData a new value for the
\* dependency list [userData]: an object read from storage is a new object
\* every time, null is new only after an object.
userDataChanges(data) ==
    IF data # NullData THEN data.stx # <<>> ELSE userData # NullData

HookInit ==
    /\ userData = NullData
    /\ stxBalance = 0
    /\ network = Null
    /\ tycoonUser = Null
    /\ mounted = FALSE
    /\ effect_due = FALSE
    /\ pending = EmptyBag
    /\ intent = "none"

Init ==
    /\ streams = [i \in {} |-> NoStream]
    /\ latest_stream_id = 0
    /\ stacks_block_height = 1
    /\ stx = [a \in Accounts |-> IF a = Contract THEN 0 ELSE InitialStx]
    /\ signatures = {}
    /\ ledger = [i \in {} |-> [deposited |-> 0, withdrawn |-> 0, refunded |-> 0]]
    /\ last = Call("deploy", NoPrincipal, 0, NoPrincipal, BadSig, OkTrue)
    /\ TycoonInit
    /\ HookInit

\* The chain mines one or more blocks.
MineBlocks(n) ==
    /\ stacks_block_height + n <= MaxHeight
    /\ stacks_block_height' = stacks_block_height + n
    /\ UNCHANGED <<streams, latest_stream_id, stx, signatures, ledger, last, tycoon_vars, hook_vars>>

StreamTo(caller, recipient, initial_balance, timeframe, payment_per_block) ==
    /\ LET result == stream_to_response(caller, recipient, initial_balance, timeframe, payment_per_block)
       IN  /\ last' = Call("stream-to", caller, latest_stream_id, NoPrincipal, BadSig, result)
           /\ IF result.kind = "ok"
              THEN /\ stx' = stx_moved(initial_balance, caller, Contract)
                   /\ streams' = map_set(streams, latest_stream_id,
                          stream_to_stream(caller, recipient, initial_balance, timeframe, payment_per_block))
                   /\ latest_stream_id' = latest_stream_id + 1
                   /\ ledger' = map_set(ledger, latest_stream_id,
                          [deposited |-> initial_balance, withdrawn |-> 0, refunded |-> 0])
              ELSE UNCHANGED <<stx, streams, latest_stream_id, ledger>>
    /\ UNCHANGED <<stacks_block_height, signatures, tycoon_vars, hook_vars>>

Refuel(caller, stream_id, amount) ==
    /\ stream_id \in DOMAIN ledger => ledger[stream_id].deposited + amount <= MaxDeposits
    /\ LET result == refuel_response(caller, stream_id, amount)
       IN  /\ last' = Call("refuel", caller, stream_id, NoPrincipal, BadSig, result)
           /\ IF result.kind = "ok"
              THEN /\ stx' = stx_moved(amount, caller, Contract)
                   /\ streams' = map_set(streams, stream_id,
                          refuel_stream(streams[stream_id], amount))
                   /\ ledger' = [ledger EXCEPT ![stream_id].deposited = @ + amount]
              ELSE UNCHANGED <<stx, streams, ledger>>
    /\ UNCHANGED <<latest_stream_id, stacks_block_height, signatures, tycoon_vars, hook_vars>>

Withdraw(caller, stream_id) ==
    /\ LET result == withdraw_response(caller, stream_id)
       IN  /\ last' = Call("withdraw", caller, stream_id, NoPrincipal, BadSig, result)
           /\ IF result.kind = "ok"
              THEN /\ streams' = map_set(streams, stream_id,
                          withdraw_stream(streams[stream_id], result.val))
                   /\ stx' = stx_moved(result.val, Contract, streams[stream_id].recipient)
                   /\ ledger' = [ledger EXCEPT ![stream_id].withdrawn = @ + result.val]
              ELSE UNCHANGED <<stx, streams, ledger>>
    /\ UNCHANGED <<latest_stream_id, stacks_block_height, signatures, tycoon_vars, hook_vars>>

Refund(caller, stream_id) ==
    /\ LET result == refund_response(caller, stream_id)
       IN  /\ last' = Call("refund", caller, stream_id, NoPrincipal, BadSig, result)
           /\ IF result.kind = "ok"
              THEN /\ streams' = map_set(streams, stream_id,
                          refund_stream(streams[stream_id], result.val))
                   /\ stx' = stx_moved(result.val, Contract, streams[stream_id].sender)
                   /\ ledger' = [ledger EXCEPT ![stream_id].refunded = @ + result.val]
              ELSE UNCHANGED <<stx, streams, ledger>>
    /\ UNCHANGED <<latest_stream_id, stacks_block_height, signatures, tycoon_vars, hook_vars>>

\* Off-chain: `key` signs the digest hash-stream gives now for a proposal.
Sign(key, stream_id, payment_per_block, timeframe) ==
    /\ Cardinality(signatures) < MaxSigs
    /\ signatures' = signatures \cup
          {[key |-> key,
            msg |-> hash_stream(stream_id, payment_per_block, timeframe),
            stream_id |-> stream_id,
            payment_per_block |-> payment_per_block,
            timeframe |-> timeframe]}
    /\ UNCHANGED <<streams, latest_stream_id, stacks_block_height, stx, ledger, last, tycoon_vars, hook_vars>>

UpdateDetails(caller, stream_id, payment_per_block, timeframe, signer, signature) ==
    /\ LET result == update_details_response(caller, stream_id, payment_per_block, timeframe, signer, signature)
       IN  /\ last' = Call("update-details", caller, stream_id, signer, signature, result)
           /\ IF result.kind = "ok"
              THEN streams' = map_set(streams, stream_id,
                       update_details_stream(streams[stream_id], payment_per_block, timeframe))
              ELSE UNCHANGED streams
    /\ UNCHANGED <<latest_stream_id, stacks_block_height, stx, signatures, ledger, tycoon_vars, hook_vars>>

\* Every entry point on one stream, with signatures that are kept: streams
\* are created on the grid the test-suite uses; consent proposals lower or
\* keep the rate and shorten, move, keep or collapse the timeframe.
Next ==
    \/ \E n \in Jumps : MineBlocks(n)
    \/ /\ latest_stream_id = 0
       /\ \E caller \in Funders, recipient \in Beneficiaries, initial_balance \in Amounts,
             timeframe \in CreateTimeframes, payment_per_block \in CreateRates :
               StreamTo(caller, recipient, initial_balance, timeframe, payment_per_block)
    \/ \E caller \in Principals, stream_id \in StreamIds, amount \in Amounts :
            Refuel(caller, stream_id, amount)
    \/ \E caller \in Principals, stream_id \in StreamIds : Withdraw(caller, stream_id)
    \/ \E caller \in Principals, stream_id \in StreamIds : Refund(caller, stream_id)
    \/ \E key \in Principals, stream_id \in DOMAIN streams, payment_per_block \in Rates,
          timeframe \in ProposalTimeframes :
            Sign(key, stream_id, payment_per_block, timeframe)
    \/ \E caller \in Principals, stream_id \in DOMAIN streams \cup {latest_stream_id},
          payment_per_block \in Rates, timeframe \in ProposalTimeframes,
          signer \in Principals, signature \in signatures :
            UpdateDetails(caller, stream_id, payment_per_block, timeframe, signer, signature)
    \/ \E caller \in Principals, stream_id \in DOMAIN streams \cup {latest_stream_id},
          payment_per_block \in CreateRates, timeframe \in CreateTimeframes,
          signer \in Principals :
            UpdateDetails(caller, stream_id, payment_per_block, timeframe, signer, BadSig)

Spec == Init /\ [][Next]_vars

\* The accounting alone, on several streams of every shape; no consent update.
NextFunds ==
    \/ \E n \in Jumps : MineBlocks(n)
    \/ /\ latest_stream_id < MaxStreams
       /\ \E caller \in Funders, recipient \in Beneficiaries, initial_balance \in Amounts,
             timeframe \in Timeframes, payment_per_block \in Rates :
               StreamTo(caller, recipient, initial_balance, timeframe, payment_per_block)
    \/ \E caller \in Principals, stream_id \in StreamIds, amount \in Amounts :
            Refuel(caller, stream_id, amount)
    \/ \E caller \in Principals, stream_id \in StreamIds : Withdraw(caller, stream_id)
    \/ \E caller \in Principals, stream_id \in StreamIds : Refund(caller, stream_id)

SpecFunds == Init /\ [][NextFunds]_vars

\* Consent across streams: several streams on the test-suite's grid, and
\* signatures over proposals that keep the start of the timeframe.
NextPair ==
    \/ \E n \in Jumps : MineBlocks(n)
    \/ /\ latest_stream_id < MaxStreams
       /\ \E caller \in Funders, recipient \in Beneficiaries, initial_balance \in Amounts,
             timeframe \in CreateTimeframes, payment_per_block \in CreateRates :
               StreamTo(caller, recipient, initial_balance, timeframe, payment_per_block)
    \/ \E caller \in Principals, stream_id \in StreamIds : Withdraw(caller, stream_id)
    \/ \E key \in Principals, stream_id \in DOMAIN streams, payment_per_block \in Rates,
          timeframe \in PairTimeframes :
            Sign(key, stream_id, payment_per_block, timeframe)
    \/ \E caller \in Principals, stream_id \in StreamIds, payment_per_block \in Rates,
          timeframe \in PairTimeframes, signer \in Principals,
          signature \in signatures :
            UpdateDetails(caller, stream_id, payment_per_block, timeframe, signer, signature)

SpecPair == Init /\ [][NextPair]_vars

\* The record of a call to a read-only function.
Read(op, who, stream_id, signer, signature, result) ==
    [op |-> op, caller |-> who, stream_id |-> stream_id, signer |-> signer,
     signature |-> signature, result |-> result]

\* Read-only calls change no chain state; the model keeps their result.
CalculateBlockDelta(timeframe) ==
    /\ last' = Read("calculate-block-delta", NoPrincipal, 0, NoPrincipal, BadSig,
                    calculate_block_delta_response(timeframe))
    /\ UNCHANGED <<streams, latest_stream_id, stacks_block_height, stx, signatures, ledger, tycoon_vars, hook_vars>>

BalanceOf(stream_id, who) ==
    /\ last' = Read("balance-of", who, stream_id, NoPrincipal, BadSig,
                    balance_of_response(stream_id, who))
    /\ UNCHANGED <<streams, latest_stream_id, stacks_block_height, stx, signatures, ledger, tycoon_vars, hook_vars>>

\* validate-signature on the digest hash-stream gives for a proposal.
ValidateSignature(stream_id, payment_per_block, timeframe, signer, signature) ==
    /\ last' = Read("validate-signature", NoPrincipal, stream_id, signer, signature,
                    validate_signature_response(
                        hash_stream(stream_id, payment_per_block, timeframe),
                        signature, signer))
    /\ UNCHANGED <<streams, latest_stream_id, stacks_block_height, stx, signatures, ledger, tycoon_vars, hook_vars>>

\* The read-only functions next to the calls that shape what they read: one
\* stream, withdrawals, and consent to proposals whose stop-block lies
\* before, on or after their start-block, signed for any stream id.
NextRead ==
    \/ \E n \in Jumps : MineBlocks(n)
    \/ /\ latest_stream_id = 0
       /\ \E caller \in Funders, recipient \in Beneficiaries, initial_balance \in Amounts,
             timeframe \in CreateTimeframes, payment_per_block \in CreateRates :
               StreamTo(caller, recipient, initial_balance, timeframe, payment_per_block)
    \/ \E caller \in Principals, stream_id \in StreamIds : Withdraw(caller, stream_id)
    \/ \E key \in Principals, stream_id \in StreamIds, payment_per_block \in Rates,
          timeframe \in AnyOrderTimeframes :
            Sign(key, stream_id, payment_per_block, timeframe)
    \/ \E caller \in Principals, stream_id \in StreamIds, payment_per_block \in Rates,
          timeframe \in AnyOrderTimeframes, signer \in Principals,
          signature \in signatures :
            UpdateDetails(caller, stream_id, payment_per_block, timeframe, signer, signature)
    \/ \E timeframe \in Timeframes : CalculateBlockDelta(timeframe)
    \/ \E stream_id \in StreamIds, who \in Principals : BalanceOf(stream_id, who)
    \/ \E stream_id \in StreamIds, payment_per_block \in Rates,
          timeframe \in AnyOrderTimeframes, signer \in Principals,
          signature \in signatures \cup {BadSig} :
            ValidateSignature(stream_id, payment_per_block, timeframe, signer, signature)

SpecRead == Init /\ [][NextRead]_vars

\* ------------------------------------------------- registration contract
Register(caller, username) ==
    /\ LET result == register_response(caller, username)
       IN  /\ tycoon_last' = TycoonCall("register", caller, username, result)
           /\ IF result.kind = "ok"
              THEN /\ users' = tycoon_map_set(users, caller,
                          [username |-> username,
                           registered_at |-> stacks_block_height])
                   /\ usernames' = tycoon_map_set(usernames, username, caller)
              ELSE UNCHANGED <<users, usernames>>
    /\ UNCHANGED <<stream_vars, hook_vars>>

\* Read-only calls change no chain state; the model keeps their result.
IsRegistered(user) ==
    /\ tycoon_last' = TycoonCall("is-registered", user, <<>>,
                                 Value(is_registered(user)))
    /\ UNCHANGED <<users, usernames, stream_vars, hook_vars>>

GetUser(user) ==
    /\ tycoon_last' = TycoonCall("get-user", user, <<>>, get_user(user))
    /\ UNCHANGED <<users, usernames, stream_vars, hook_vars>>

NextTycoon ==
    \/ \E n \in Jumps : MineBlocks(n)
    \/ \E caller \in Principals, username \in Usernames : Register(caller, username)
    \/ \E user \in Principals : IsRegistered(user)
    \/ \E user \in Principals : GetUser(user)

SpecTycoon == Init /\ [][NextTycoon]_vars

\* ------------------------------------------------------------ wallet hook
\* Handlers and promise callbacks run to completion one at a time, and the
\* state updates of one of them are applied together.  The effect on
\* [userData] runs in a step of its own after the update that changed
\* userData.  Every call of connect(), getStxBalance or getUser makes a
\* promise of its own, so the promises in flight are a bag; at most
\* MaxPending of them are in flight at once.

\* The mount effect: a session found in storage is loaded.  `data` is what
\* getLocalStorage() returns, NullData when isConnected() is false.
Mount(data) ==
    /\ ~mounted
    /\ mounted' = TRUE
    /\ IF data # NullData
       THEN /\ userData' = handleUserData(data).userData
            /\ network' = handleUserData(data).network
            /\ tycoonUser' = handleUserData(data).tycoonUser
            /\ effect_due' = (effect_due \/ userDataChanges(data))
       ELSE UNCHANGED <<userData, network, tycoonUser, effect_due>>
    /\ UNCHANGED <<stxBalance, pending, intent, stream_vars, tycoon_vars>>

\* connectWallet: connect() is started; its promise is pending.
ConnectWallet ==
    /\ mounted
    /\ BagCardinality(pending) < MaxPending
    /\ pending' = pending (+) SetToBag({[kind |-> "connect", address |-> <<>>, guarded |-> FALSE]})
    /\ intent' = "connect"
    /\ UNCHANGED <<userData, stxBalance, network, tycoonUser, mounted, effect_due,
                   stream_vars, tycoon_vars>>

\* connect() resolves: handleUserData(getLocalStorage()), `data` being the
\* session the wallet has just stored.
ConnectResolved(promise, data) ==
    /\ BagIn(promise, pending) /\ promise.kind = "connect"
    /\ pending' = pending (-) SetToBag({promise})
    /\ userData' = handleUserData(data).userData
    /\ network' = handleUserData(data).network
    /\ tycoonUser' = handleUserData(data).tycoonUser
    /\ effect_due' = (effect_due \/ userDataChanges(data))
    /\ UNCHANGED <<stxBalance, mounted, intent, stream_vars, tycoon_vars>>

\* connect() rejects: the error is logged.
ConnectRejected(promise) ==
    /\ BagIn(promise, pending) /\ promise.kind = "connect"
    /\ pending' = pending (-) SetToBag({promise})
    /\ UNCHANGED <<userData, stxBalance, network, tycoonUser, mounted, effect_due,
                   intent, stream_vars, tycoon_vars>>

\* disconnectWallet: disconnect(), handleUserData(null), setStxBalance(0).
DisconnectWallet ==
    /\ mounted
    /\ userData' = handleUserData(NullData).userData
    /\ network' = handleUserData(NullData).network
    /\ tycoonUser' = handleUserData(NullData).tycoonUser
    /\ stxBalance' = 0
    /\ effect_due' = (effect_due \/ userDataChanges(NullData))
    /\ intent' = "disconnect"
    /\ UNCHANGED <<mounted, pending, stream_vars, tycoon_vars>>

\* fetchUserInfo: the promise it returns; without userData or network it
\* resolves to null without a request.
fetchUserInfo ==
    IF userData = NullData \/ network = Null
    THEN [kind |-> "user", address |-> <<>>, guarded |-> TRUE]
    ELSE [kind |-> "user", address |-> userData.stx, guarded |-> FALSE]

\* useEffect(..., [userData]): with a session the balance and the user
\* info are requested; without one both are reset.
UserDataEffect ==
    /\ effect_due
    /\ effect_due' = FALSE
    /\ IF userData # NullData
       THEN /\ BagCardinality(pending) + 2 <= MaxPending
            /\ pending' = pending
                   (+) SetToBag({[kind |-> "balance", address |-> userData.stx,
                                  guarded |-> FALSE]})
                   (+) SetToBag({fetchUserInfo})
            /\ UNCHANGED <<stxBalance, tycoonUser>>
       ELSE /\ stxBalance' = 0
            /\ tycoonUser' = Null
            /\ UNCHANGED pending
    /\ UNCHANGED <<userData, network, mounted, intent, stream_vars, tycoon_vars>>

\* getStxBalance(address) resolves: setStxBalance(balance).
BalanceResolved(promise, balance) ==
    /\ BagIn(promise, pending) /\ promise.kind = "balance"
    /\ pending' = pending (-) SetToBag({promise})
    /\ stxBalance' = balance
    /\ UNCHANGED <<userData, network, tycoonUser, mounted, effect_due, intent,
                   stream_vars, tycoon_vars>>

\* fetchUserInfo() resolves: setTycoonUser(user).
UserInfoResolved(promise, user) ==
    /\ BagIn(promise, pending) /\ promise.kind = "user"
    /\ promise.guarded => user = Null
    /\ pending' = pending (-) SetToBag({promise})
    /\ tycoonUser' = user
    /\ UNCHANGED <<userData, stxBalance, network, mounted, effect_due, intent,
                   stream_vars, tycoon_vars>>

\* A request fails: its promise rejects and no callback runs.
FetchRejected(promise) ==
    /\ BagIn(promise, pending) /\ promise.kind \in {"balance", "user"}
    /\ ~promise.guarded
    /\ pending' = pending (-) SetToBag({promise})
    /\ UNCHANGED <<userData, stxBalance, network, tycoonUser, mounted, effect_due,
                   intent, stream_vars, tycoon_vars>>

NextHook ==
    \/ \E data \in Sessions \cup {NullData} : Mount(data)
    \/ ConnectWallet
    \/ \E promise \in BagToSet(pending), data \in Sessions : ConnectResolved(promise, data)
    \/ \E promise \in BagToSet(pending) : ConnectRejected(promise)
    \/ DisconnectWallet
    \/ UserDataEffect
    \/ \E promise \in BagToSet(pending), balance \in StxBalances : BalanceResolved(promise, balance)
    \/ \E promise \in BagToSet(pending), user \in UserInfos : UserInfoResolved(promise, user)
    \/ \E promise \in BagToSet(pending) : FetchRejected(promise)

SpecHook == Init /\ [][NextHook]_vars

\* ------------------------------------------------------------------ claims
\* What a stream's recipient has vested at the current height.
Vested(stream_id) == recipient_balance(streams[stream_id])

\* The last call committed and was an update-details.
UpdateCommitted == last.op = "update-details" /\ last.result.kind = "ok"

\* `signature` verifies now for its own key, stream and proposal.
Fresh(signature) ==
    /\ signature.stream_id \in DOMAIN streams
    /\ validate_signature(
           hash_stream(signature.stream_id, signature.payment_per_block,
                       signature.timeframe),
           signature, signature.key)

\* A signature `key` makes over the digest of a stream that does not exist.
SentinelSig(key) ==
    [key |-> key, msg |-> sha256_of_zero, stream_id |-> latest_stream_id,
     payment_per_block |-> 0, timeframe |-> NoTimeframe]

\* C1: for every stream, in every reachable state, withdrawn-balance is at
\* most elapsed(timeframe, now) * payment-per-block, also right after an
\* update-details that lowers the rate or shortens or moves the timeframe.
C1_WithdrawnWithinVested ==
    \A i \in DOMAIN streams : streams[i].withdrawn_balance <= Vested(i)

\* C2: for every stream, what has been transferred out on its behalf
\* (withdrawals plus refunds) never exceeds what was deposited into it
\* (initial deposit plus refuels).
C2_PaidOutWithinDeposits ==
    \A i \in DOMAIN streams :
        ledger[i].withdrawn + ledger[i].refunded <= ledger[i].deposited

\* C3: for every stream, in every reachable state, withdrawn-balance is at
\* most balance.
C3_WithdrawnWithinBalance ==
    \A i \in DOMAIN streams : streams[i].withdrawn_balance <= streams[i].balance

\* C4 as stated: the stored balance of every stream equals the funds held for
\* it: deposits less the withdrawals paid less the refunds paid.
C4_BalanceIsCustody ==
    \A i \in DOMAIN streams :
        streams[i].balance =
            ledger[i].deposited - ledger[i].withdrawn - ledger[i].refunded

\* C4 as amended: the stored balance of every stream equals its deposits
\* (initial deposit plus refuels) less the refunds paid; withdrawals are not
\* taken off it.
C4_BalanceIsDepositsLessRefunds ==
    \A i \in DOMAIN streams :
        streams[i].balance = ledger[i].deposited - ledger[i].refunded

\* A refund has just been paid on a stream that was also withdrawn from.
C4_Witness ==
    /\ last.op = "refund" /\ last.result.kind = "ok"
    /\ ledger[last.stream_id].refunded > 0
    /\ ledger[last.stream_id].withdrawn > 0

\* C5: a step changes payment-per-block or timeframe of a stream only if it
\* is an update-details that succeeds, and update-details succeeds only if
\* the signature verifies for the claimed signer against the digest of the
\* stored record and the proposal, and caller and signer are the two parties
\* of the stream, the signer a principal other than the caller.
C5_UpdateNeedsConsent ==
    [][ /\ \A i \in DOMAIN streams :
             (\/ streams'[i].payment_per_block # streams[i].payment_per_block
              \/ streams'[i].timeframe # streams[i].timeframe)
                => (last' # last /\ last'.op = "update-details"
                    /\ last'.result.kind = "ok" /\ last'.stream_id = i)
        /\ (last' # last /\ last'.op = "update-details" /\ last'.result.kind = "ok")
             => LET i == last'.stream_id
                IN  /\ i \in DOMAIN streams
                    /\ validate_signature(
                           hash_stream(i, streams'[i].payment_per_block,
                                       streams'[i].timeframe),
                           last'.signature, last'.signer)
                    /\ \/ /\ last'.caller = streams[i].sender
                          /\ last'.signer = streams[i].recipient
                       \/ /\ last'.caller = streams[i].recipient
                          /\ last'.signer = streams[i].sender
                    /\ last'.signer # last'.caller
      ]_vars

\* C6: a signature made over the consent digest of stream i is rejected by
\* update-details on every other stream j, also when the two stored records
\* are identical.
C6_NoReplayAcrossStreams ==
    UpdateCommitted => last.signature.stream_id = last.stream_id

\* C7: a signature made over the digest for one proposal is rejected with
\* ERR_INVALID_SIGNATURE by update-details on its stream for every other
\* proposed rate, start-block or stop-block, whoever calls and whoever is
\* named as signer.
C7_OtherProposalRejected ==
    \A signature \in signatures, caller \in Principals, signer \in Principals,
       payment_per_block \in Rates, timeframe \in Timeframes :
        (/\ signature.stream_id \in DOMAIN streams
         /\ <<payment_per_block, timeframe>>
                # <<signature.payment_per_block, signature.timeframe>>)
        => update_details_response(caller, signature.stream_id, payment_per_block,
                                   timeframe, signer, signature)
               = Err(ERR_INVALID_SIGNATURE)

\* An update-details was rejected with ERR_INVALID_SIGNATURE in a state that
\* holds a signature which verifies for its own proposal on its stream.
C7_Witness ==
    /\ last.op = "update-details"
    /\ last.result = Err(ERR_INVALID_SIGNATURE)
    /\ \E signature \in signatures :
          /\ Fresh(signature)
          /\ signature.key \in {streams[signature.stream_id].sender,
                                streams[signature.stream_id].recipient}

\* C8: update-details with the caller named as signer never succeeds, on any
\* stream stream-to can create.
C8_NoSelfSignedUpdate ==
    ~(UpdateCommitted /\ last.signer = last.caller)

\* C9: a withdraw by the recipient right after a withdraw that succeeded, at
\* the same height, succeeds and pays 0; and a withdraw by the recipient at
\* or before start-block succeeds and pays 0.
C9_NothingToClaimPaysZero ==
    /\ (/\ last.op = "withdraw" /\ last.result.kind = "ok"
        /\ Vested(last.stream_id) = streams[last.stream_id].withdrawn_balance)
          => withdraw_response(last.caller, last.stream_id) = Ok(0)
    /\ \A i \in DOMAIN streams :
          stacks_block_height <= streams[i].timeframe.start_block
          => withdraw_response(streams[i].recipient, i) = Ok(0)

\* C10: no step lowers the withdrawn-balance of a stream, and no step removes
\* a stream.
C10_WithdrawnNeverDecreases ==
    [][ \A i \in DOMAIN streams :
            /\ i \in DOMAIN streams'
            /\ streams'[i].withdrawn_balance >= streams[i].withdrawn_balance
      ]_vars

\* A withdrawal has just been added to an earlier one.
C10_Witness ==
    /\ last.op = "withdraw" /\ last.result.kind = "ok"
    /\ streams[last.stream_id].withdrawn_balance > last.result.val

\* C11: refuel on an existing stream by any account that is not its sender,
\* for any amount, 0 included, returns ERR_UNAUTHORIZED; a step that ends in
\* that response moves no STX and leaves every stream record as it was.
C11_RefuelByOtherUnauthorized ==
    [][ /\ \A i \in DOMAIN streams, caller \in Principals, amount \in Amounts :
             caller # streams[i].sender
                => refuel_response(caller, i, amount) = Err(ERR_UNAUTHORIZED)
        /\ (last'.op = "refuel" /\ last'.result = Err(ERR_UNAUTHORIZED))
             => UNCHANGED <<streams, stx, latest_stream_id>>
      ]_vars

\* A refuel was just rejected as unauthorized while the sender of a stream
\* could have afforded it.
C11_Witness ==
    /\ last.op = "refuel" /\ last.result = Err(ERR_UNAUTHORIZED)
    /\ \E i \in DOMAIN streams : stx[streams[i].sender] > 0

\* C12: refund on an existing stream by any account that is not its sender
\* returns ERR_UNAUTHORIZED at every height, also when payment-per-block
\* times the elapsed blocks exceeds the stored balance.
C12_RefundByOtherUnauthorized ==
    \A i \in DOMAIN streams, caller \in Principals :
        caller # streams[i].sender
            => refund_response(caller, i) = Err(ERR_UNAUTHORIZED)

\* C13: withdraw on an existing stream by any account that is not its
\* recipient returns ERR_UNAUTHORIZED in every reachable state, also when the
\* vested amount exceeds the stored balance.
C13_WithdrawByOtherUnauthorized ==
    \A i \in DOMAIN streams, caller \in Principals :
        caller # streams[i].recipient
            => withdraw_response(caller, i) = Err(ERR_UNAUTHORIZED)

\* C14: every stored stream has stop-block > start-block in every reachable
\* state, after stream-to and after every update-details that succeeds.
C14_StopAfterStart ==
    \A i \in DOMAIN streams :
        streams[i].timeframe.stop_block > streams[i].timeframe.start_block

\* C15: stream-to with stop-block <= start-block returns
\* ERR_INVALID_TIMEFRAME, also for an initial balance of 0; with stop-block >
\* start-block and an initial balance of 0 it returns ERR_INVALID_AMOUNT; a
\* stream-to that ends in an error, the failure of the deposit transfer
\* included, creates no record, keeps the counter and moves no STX.
C15_StreamToRejects ==
    /\ [](\A caller \in Principals, recipient \in Principals,
             initial_balance \in Amounts, timeframe \in Timeframes,
             payment_per_block \in Rates :
            LET result == stream_to_response(caller, recipient, initial_balance,
                                             timeframe, payment_per_block)
            IN  /\ timeframe.stop_block <= timeframe.start_block
                       => result = Err(ERR_INVALID_TIMEFRAME)
                /\ (/\ timeframe.stop_block > timeframe.start_block
                     /\ initial_balance = 0)
                       => result = Err(ERR_INVALID_AMOUNT)
                /\ (/\ timeframe.stop_block > timeframe.start_block
                     /\ initial_balance > stx[caller])
                       => result = Err(STX_NOT_ENOUGH_BALANCE))
    /\ [][ (last'.op = "stream-to" /\ last'.result.kind # "ok")
             => UNCHANGED <<streams, latest_stream_id, stx>> ]_vars

\* A stream-to was just rejected because the caller could not pay the deposit.
C15_Witness ==
    /\ last.op = "stream-to"
    /\ last.result = Err(STX_NOT_ENOUGH_BALANCE)
    /\ \E caller \in Funders : stx[caller] = 0

\* C16: the existing stream ids are exactly 0 .. latest-stream-id - 1 in
\* every reachable state; a stream-to that succeeds returns the counter,
\* stores under it a record with the caller as sender, the deposit as balance
\* and nothing withdrawn, and raises the counter by 1; no other step changes
\* the counter, and no step removes a record.
C16_SequentialIds ==
    /\ [](DOMAIN streams = 0..(latest_stream_id - 1))
    /\ [][  /\ DOMAIN streams \subseteq DOMAIN streams'
            /\ IF last' # last /\ last'.op = "stream-to" /\ last'.result.kind = "ok"
               THEN LET id == last'.result.val
                        caller == last'.caller
                    IN  /\ id = latest_stream_id
                        /\ latest_stream_id' = latest_stream_id + 1
                        /\ id \notin DOMAIN streams
                        /\ DOMAIN streams' = DOMAIN streams \cup {id}
                        /\ streams'[id].sender = caller
                        /\ streams'[id].balance = stx[caller] - stx'[caller]
                        /\ streams'[id].balance > 0
                        /\ stx'[Contract] = stx[Contract] + streams'[id].balance
                        /\ streams'[id].withdrawn_balance = 0
                        /\ \A i \in DOMAIN streams : streams'[i] = streams[i]
               ELSE /\ latest_stream_id' = latest_stream_id
                    /\ DOMAIN streams' = DOMAIN streams
          ]_vars

\* A second stream was just created, for a recipient other than its sender.
C16_Witness ==
    /\ last.op = "stream-to" /\ last.result = Ok(MaxStreams - 1)
    /\ streams[MaxStreams - 1].recipient # streams[MaxStreams - 1].sender

\* C17: no step changes the sender or the recipient of a stream: not refuel,
\* withdraw, refund or update-details, by any caller and with any signature.
C17_PartiesNeverChange ==
    [][ \A i \in DOMAIN streams :
            /\ i \in DOMAIN streams'
            /\ streams'[i].sender = streams[i].sender
            /\ streams'[i].recipient = streams[i].recipient
      ]_vars

\* An update-details committed on a stream between two different accounts
\* that had been withdrawn from before.
C17_Witness ==
    /\ UpdateCommitted
    /\ streams[last.stream_id].sender # streams[last.stream_id].recipient
    /\ streams[last.stream_id].withdrawn_balance > 0

\* C18: refuel by the sender with an amount of 0 returns ERR_INVALID_AMOUNT,
\* and with an amount > 0 the sender can pay succeeds at every height; a
\* refuel that succeeds returns the amount, moves exactly the amount from the
\* caller to the contract, adds it to the balance of the stream and leaves
\* the other fields of the stream, the other streams and the counter as they
\* were; a refuel that ends in an error changes nothing.
C18_RefuelAddsAmount ==
    /\ [](\A i \in DOMAIN streams, amount \in Amounts :
            LET result == refuel_response(streams[i].sender, i, amount)
            IN  /\ amount = 0 => result = Err(ERR_INVALID_AMOUNT)
                /\ (amount > 0 /\ stx[streams[i].sender] >= amount)
                       => result = Ok(amount))
    /\ [][  /\ (/\ last'.op = "refuel" /\ last'.result.kind = "ok"
                /\ (last' # last \/ stx' # stx \/ streams' # streams))
                 => LET i == last'.stream_id
                        amount == last'.result.val
                        caller == last'.caller
                    IN  /\ amount > 0
                        /\ i \in DOMAIN streams
                        /\ caller = streams[i].sender
                        /\ stx' = [a \in Accounts |->
                                      IF a = caller THEN stx[a] - amount
                                      ELSE IF a = Contract THEN stx[a] + amount
                                      ELSE stx[a]]
                        /\ streams' = [streams EXCEPT ![i].balance = @ + amount]
                        /\ latest_stream_id' = latest_stream_id
            /\ (last'.op = "refuel" /\ last'.result.kind # "ok")
                 => UNCHANGED <<streams, stx, latest_stream_id>>
          ]_vars

\* A refuel just succeeded on a stream past its stop-block that had already
\* been refueled, while another stream exists.
C18_Witness ==
    /\ last.op = "refuel" /\ last.result.kind = "ok"
    /\ stacks_block_height > streams[last.stream_id].timeframe.stop_block
    /\ streams[last.stream_id].balance > last.result.val
    /\ Cardinality(DOMAIN streams) > 1

\* C19: a withdraw that succeeds pays the recipient exactly
\* payment-per-block * elapsed - withdrawn-balance out of the contract and
\* adds it to withdrawn-balance; so, without update-details, after any
\* withdraws separated by any jumps of the height, withdrawn-balance is
\* payment-per-block * elapsed at the height of the last withdraw, it is what
\* the stream has paid, and it is at most payment-per-block * (stop - start).
C19_WithdrawPaysVested ==
    /\ [](\A i \in DOMAIN streams :
            /\ streams[i].withdrawn_balance = ledger[i].withdrawn
            /\ streams[i].withdrawn_balance
                 <= streams[i].payment_per_block
                      * (streams[i].timeframe.stop_block
                           - streams[i].timeframe.start_block))
    /\ [][ (/\ last'.op = "withdraw" /\ last'.result.kind = "ok"
             /\ (last' # last \/ stx' # stx \/ streams' # streams))
              => LET i == last'.stream_id
                     paid == last'.result.val
                 IN  /\ i \in DOMAIN streams
                     /\ last'.caller = streams[i].recipient
                     /\ paid = Vested(i) - streams[i].withdrawn_balance
                     /\ streams' = [streams EXCEPT ![i].withdrawn_balance = @ + paid]
                     /\ streams'[i].withdrawn_balance = Vested(i)
                     /\ stx' = [a \in Accounts |->
                                   IF a = Contract THEN stx[a] - paid
                                   ELSE IF a = last'.caller THEN stx[a] + paid
                                   ELSE stx[a]]
          ]_vars

\* A withdraw just succeeded past the stop-block of a stream that had been
\* withdrawn from before, and brought withdrawn-balance to the whole schedule.
C19_Witness ==
    /\ last.op = "withdraw" /\ last.result.kind = "ok"
    /\ stacks_block_height > streams[last.stream_id].timeframe.stop_block
    /\ streams[last.stream_id].withdrawn_balance > last.result.val
    /\ streams[last.stream_id].withdrawn_balance
         = streams[last.stream_id].payment_per_block
             * (streams[last.stream_id].timeframe.stop_block
                  - streams[last.stream_id].timeframe.start_block)

\* C20: refund called by the sender returns ERR_STREAM_STILL_ACTIVE whenever
\* the height is at most stop-block, the height stop-block itself included,
\* and succeeds only above stop-block.
C20_RefundOnlyAfterStop ==
    \A i \in DOMAIN streams :
        LET result == refund_response(streams[i].sender, i)
        IN  /\ stacks_block_height <= streams[i].timeframe.stop_block
                   => result = Err(ERR_STREAM_STILL_ACTIVE)
            /\ result.kind = "ok"
                   => stacks_block_height > streams[i].timeframe.stop_block

\* C21: a refund that succeeds is called by the sender above stop-block, pays
\* the sender exactly balance - payment-per-block * (stop - start) out of the
\* contract, whatever the recipient has withdrawn, and takes that amount off
\* balance, which is payment-per-block * (stop - start) afterwards; it leaves
\* withdrawn-balance, rate, timeframe and the other streams as they were.
C21_RefundPaysExcess ==
    [][ (/\ last'.op = "refund" /\ last'.result.kind = "ok"
         /\ (last' # last \/ stx' # stx \/ streams' # streams))
          => LET i == last'.stream_id
                 paid == last'.result.val
                 schedule == streams[i].payment_per_block
                               * (streams[i].timeframe.stop_block
                                    - streams[i].timeframe.start_block)
             IN  /\ i \in DOMAIN streams
                 /\ last'.caller = streams[i].sender
                 /\ stacks_block_height > streams[i].timeframe.stop_block
                 /\ paid = streams[i].balance - schedule
                 /\ streams' = [streams EXCEPT ![i].balance = @ - paid]
                 /\ streams'[i].balance = schedule
                 /\ stx' = [a \in Accounts |->
                               IF a = Contract THEN stx[a] - paid
                               ELSE IF a = last'.caller THEN stx[a] + paid
                               ELSE stx[a]]
      ]_vars

\* C22: an update-details that succeeds stores the proposed rate and the
\* proposed timeframe, the ones the signature was made over, in the stream it
\* names and leaves balance, withdrawn-balance, sender and recipient of that
\* stream, every other stream, the counter and every STX balance as they were.
C22_UpdateWritesRateAndTimeframe ==
    [][ (/\ last'.op = "update-details" /\ last'.result.kind = "ok"
         /\ (last' # last \/ stx' # stx \/ streams' # streams))
          => LET i == last'.stream_id
             IN  /\ i \in DOMAIN streams
                 /\ streams' = [streams EXCEPT
                        ![i].payment_per_block = last'.signature.payment_per_block,
                        ![i].timeframe = last'.signature.timeframe]
                 /\ stx' = stx
                 /\ latest_stream_id' = latest_stream_id
      ]_vars

\* An update-details just committed a rate and a timeframe that both differ
\* from the ones the stream was created with, on a stream withdrawn from.
C22_Witness ==
    /\ UpdateCommitted
    /\ streams[last.stream_id].payment_per_block \notin CreateRates
    /\ streams[last.stream_id].timeframe \notin CreateTimeframes
    /\ streams[last.stream_id].withdrawn_balance > 0
    /\ stx[Contract] < streams[last.stream_id].balance

\* C23: a call to stream-to, refuel, withdraw, refund or update-details that
\* returns a failure leaves every stream record, the counter and every STX
\* balance as before the call.  A withdraw or refund whose transfer out of
\* the contract fails returns a failure (withdraw the transfer's own), and
\* withdrawn-balance or balance move on a step only together with the same
\* amount of STX leaving the contract.
C23_FailureChangesNothing ==
    /\ [](\A i \in DOMAIN streams :
            LET recipient == streams[i].recipient
                sender == streams[i].sender
            IN  /\ (/\ ~balance_of_underflows(i, recipient)
                    /\ stx_transfer(balance_of(i, recipient), Contract, recipient).kind # "ok")
                   => withdraw_response(recipient, i)
                        = stx_transfer(balance_of(i, recipient), Contract, recipient)
                /\ (/\ ~balance_of_underflows(i, sender)
                    /\ stx_transfer(balance_of(i, sender), Contract, sender).kind # "ok")
                   => refund_response(sender, i).kind # "ok")
    /\ [][  /\ (/\ last'.op \in {"stream-to", "refuel", "withdraw", "refund", "update-details"}
                /\ last'.result.kind # "ok")
                 => UNCHANGED <<streams, latest_stream_id, stx>>
            /\ \A i \in DOMAIN streams :
                 /\ streams'[i].withdrawn_balance # streams[i].withdrawn_balance
                      => stx'[Contract] = stx[Contract]
                            - (streams'[i].withdrawn_balance - streams[i].withdrawn_balance)
                 /\ streams'[i].balance < streams[i].balance
                      => stx'[Contract] = stx[Contract]
                            - (streams[i].balance - streams'[i].balance)
         ]_vars

\* A withdraw by the recipient just failed because the contract holds less
\* than the stream has vested.
C23_Witness ==
    /\ last.op = "withdraw"
    /\ last.result = Err(STX_NOT_ENOUGH_BALANCE)
    /\ \E i \in DOMAIN streams :
          /\ ~balance_of_underflows(i, streams[i].recipient)
          /\ balance_of(i, streams[i].recipient) > stx[Contract]

\* C24: for a stream id that does not exist refuel, withdraw, refund and
\* update-details return ERR_INVALID_STREAM_ID whatever the caller, amount,
\* height, signer and signature (one made over the digest of a missing
\* stream included), and a step that ends in that response changes nothing.
C24_MissingStreamRejected ==
    /\ [](\A i \in StreamIds \ DOMAIN streams, caller \in Principals :
            /\ \A amount \in Amounts :
                  refuel_response(caller, i, amount) = Err(ERR_INVALID_STREAM_ID)
            /\ withdraw_response(caller, i) = Err(ERR_INVALID_STREAM_ID)
            /\ refund_response(caller, i) = Err(ERR_INVALID_STREAM_ID)
            /\ \A payment_per_block \in Rates, timeframe \in Timeframes,
                  signer \in Principals,
                  signature \in signatures \cup {BadSig}
                                 \cup {SentinelSig(key) : key \in Principals} :
                  update_details_response(caller, i, payment_per_block, timeframe,
                                          signer, signature)
                      = Err(ERR_INVALID_STREAM_ID))
    /\ [][ (/\ last'.op \in {"refuel", "withdraw", "refund", "update-details"}
             /\ last'.result = Err(ERR_INVALID_STREAM_ID))
              => UNCHANGED <<streams, latest_stream_id, stx>>
          ]_vars

\* An update-details on a missing stream id was just rejected while another
\* stream exists and a signature is kept.
C24_Witness ==
    /\ last.op = "update-details"
    /\ last.result = Err(ERR_INVALID_STREAM_ID)
    /\ DOMAIN streams # {}
    /\ signatures # {}

\* C25: every call to a mutating entry point succeeds or returns one of the
\* failures listed for it: stream-to ERR_INVALID_TIMEFRAME or
\* ERR_INVALID_AMOUNT; refuel, withdraw, refund and update-details
\* ERR_INVALID_STREAM_ID only for a missing stream; on an existing stream
\* refuel ERR_UNAUTHORIZED or ERR_INVALID_AMOUNT, refund ERR_UNAUTHORIZED or
\* ERR_STREAM_STILL_ACTIVE, update-details ERR_INVALID_SIGNATURE or
\* ERR_UNAUTHORIZED, and withdraw ERR_UNAUTHORIZED for a caller who is not
\* the recipient and success for the recipient; no call ends in a runtime
\* error or in the error of a transfer.
C25_FailuresAreTyped ==
    /\ \A caller \in Principals, recipient \in Principals,
          initial_balance \in Amounts, timeframe \in Timeframes,
          payment_per_block \in Rates :
          LET result == stream_to_response(caller, recipient, initial_balance,
                                           timeframe, payment_per_block)
          IN  \/ result.kind = "ok"
              \/ result \in {Err(ERR_INVALID_TIMEFRAME), Err(ERR_INVALID_AMOUNT)}
    /\ \A i \in DOMAIN streams, caller \in Principals :
          /\ \A amount \in Amounts :
                LET result == refuel_response(caller, i, amount)
                IN  \/ result.kind = "ok"
                    \/ result \in {Err(ERR_UNAUTHORIZED), Err(ERR_INVALID_AMOUNT)}
          /\ withdraw_response(caller, i) =
                IF caller = streams[i].recipient
                THEN Ok(balance_of(i, caller))
                ELSE Err(ERR_UNAUTHORIZED)
          /\ LET result == refund_response(caller, i)
             IN  \/ result.kind = "ok"
                 \/ result \in {Err(ERR_UNAUTHORIZED), Err(ERR_STREAM_STILL_ACTIVE)}
          /\ \A payment_per_block \in Rates, timeframe \in Timeframes,
                signer \in Principals, signature \in signatures \cup {BadSig} :
                LET result == update_details_response(caller, i, payment_per_block,
                                                      timeframe, signer, signature)
                IN  \/ result.kind = "ok"
                    \/ result \in {Err(ERR_INVALID_SIGNATURE), Err(ERR_UNAUTHORIZED)}

\* C26: for the timeframe of every stored stream and the current height,
\* calculate-block-delta returns, and never fails: 0 if the height is at most
\* start-block, height - start-block if it lies between start-block and
\* stop-block, and stop-block - start-block from stop-block on.
C26_ElapsedIsTotal ==
    \A i \in DOMAIN streams :
        LET timeframe == streams[i].timeframe
            now == stacks_block_height
        IN  calculate_block_delta_response(timeframe) =
                Value(IF now <= timeframe.start_block THEN 0
                      ELSE IF now < timeframe.stop_block
                           THEN now - timeframe.start_block
                           ELSE timeframe.stop_block - timeframe.start_block)

\* C27: for every existing stream and height balance-of for the recipient
\* returns vested - withdrawn-balance, and 0 instead of a failure when
\* withdrawn-balance exceeds the vested amount; a withdraw by the recipient
\* then yields 0.
C27_ClaimableSaturates ==
    \A i \in DOMAIN streams :
        LET stream == streams[i]
        IN  IF stream.withdrawn_balance > Vested(i)
            THEN /\ balance_of_response(i, stream.recipient) = Value(0)
                 /\ withdraw_response(stream.recipient, i) = Ok(0)
            ELSE balance_of_response(i, stream.recipient)
                     = Value(Vested(i) - stream.withdrawn_balance)

\* C28: balance-of returns 0 and never fails for every stream id that does
\* not exist, whoever is asked about, and for every account that is neither
\* sender nor recipient of an existing stream, in every reachable state.
C28_UnrelatedBalanceIsZero ==
    \A i \in StreamIds, who \in Principals :
        (\/ i \notin DOMAIN streams
         \/ who \notin {streams[i].sender, streams[i].recipient})
            => balance_of_response(i, who) = Value(0)

\* C29: hash-stream never fails and is a function of the stored record and
\* the proposal: on an existing stream two proposals give the same digest
\* exactly when they are the same proposal; for a stream id that does not
\* exist it gives (sha256 0) whatever the proposal, a value no existing
\* stream yields; and a signature over that value, although it verifies
\* against the digest of a missing stream, authorises no update:
\* update-details answers ERR_INVALID_STREAM_ID there and
\* ERR_INVALID_SIGNATURE on every existing stream.
C29_DigestIsDeterministic ==
    /\ \A i \in DOMAIN streams, payment_per_block \in Rates, timeframe \in Timeframes :
          /\ hash_stream(i, payment_per_block, timeframe)
                = sha256(to_consensus_buff_stream(streams[i])
                           \o to_consensus_buff_uint(payment_per_block)
                           \o to_consensus_buff_timeframe(timeframe))
          /\ hash_stream(i, payment_per_block, timeframe) # sha256_of_zero
          /\ \A other_rate \in Rates, other_timeframe \in Timeframes :
                (hash_stream(i, payment_per_block, timeframe)
                    = hash_stream(i, other_rate, other_timeframe))
                  <=> (<<payment_per_block, timeframe>>
                          = <<other_rate, other_timeframe>>)
          /\ \A caller \in Principals, signer \in Principals :
                update_details_response(caller, i, payment_per_block, timeframe,
                                        signer, SentinelSig(signer))
                    = Err(ERR_INVALID_SIGNATURE)
    /\ \A i \in StreamIds \ DOMAIN streams, payment_per_block \in Rates,
          timeframe \in Timeframes :
          /\ hash_stream(i, payment_per_block, timeframe) = sha256_of_zero
          /\ \A caller \in Principals, signer \in Principals :
                /\ validate_signature(hash_stream(i, payment_per_block, timeframe),
                                      SentinelSig(signer), signer)
                /\ update_details_response(caller, i, payment_per_block, timeframe,
                                           signer, SentinelSig(signer))
                       = Err(ERR_INVALID_STREAM_ID)
    /\ ~(UpdateCommitted /\ last.signature.msg = sha256_of_zero)

\* An update-details on a missing stream was just rejected while a signature
\* made over the digest of a missing stream is kept and a stream exists.
C29_Witness ==
    /\ last.op = "update-details"
    /\ last.result = Err(ERR_INVALID_STREAM_ID)
    /\ \E signature \in signatures : signature.msg = sha256_of_zero
    /\ DOMAIN streams # {}

\* C30: validate-signature returns true exactly when recovery on the digest
\* and the signature succeeds and the recovered principal is the claimed
\* signer, that is when the signature was made by the claimed signer over
\* this very digest; when recovery fails or yields another principal it
\* returns false; it always returns a boolean.
C30_VerifyIsRecoverAndCompare ==
    /\ \A i \in StreamIds, payment_per_block \in Rates, timeframe \in Timeframes,
          signer \in Principals, signature \in signatures \cup {BadSig} :
          LET hash == hash_stream(i, payment_per_block, timeframe)
              recovered == secp256k1_recover(hash, signature)
              result == validate_signature_response(hash, signature, signer)
          IN  /\ result \in {Value(0), Value(1)}
              /\ result = Value(1)
                    <=> (recovered # NoPrincipal /\ recovered = signer)
              /\ result = Value(1)
                    <=> (signature.key = signer /\ signature.msg = hash)
              /\ signature = BadSig => result = Value(0)
    /\ last.op = "validate-signature"
          => /\ last.result \in {Value(0), Value(1)}
             /\ last.result = Value(1) => last.signature.key = last.signer

\* validate-signature just returned false for a kept signature that verifies
\* for its own key and proposal, because another account was named as signer.
C30_Witness ==
    /\ last.op = "validate-signature"
    /\ last.result = Value(0)
    /\ last.signature \in signatures
    /\ Fresh(last.signature)
    /\ last.signer # last.signature.key
    /\ last.signature.msg
         = hash_stream(last.stream_id, last.signature.payment_per_block,
                       last.signature.timeframe)

\* C31: a call that commits on one stream leaves the record of every other
\* stream as it was, and leaves what withdraw and refund on every other
\* stream return, for every caller, as it was: a call on stream i gives the
\* same result before and after a call on another stream j, the stream-to
\* that creates j and a refuel of j included.
C31_StreamsAreIndependent ==
    [][ (/\ last' # last
         /\ last'.op \in {"stream-to", "refuel", "withdraw", "refund"}
         /\ last'.result.kind = "ok")
          => \A i \in DOMAIN streams \ {last'.stream_id} :
                /\ streams'[i] = streams[i]
                /\ \A caller \in Principals :
                      /\ withdraw_response(caller, i)' = withdraw_response(caller, i)
                      /\ refund_response(caller, i)' = refund_response(caller, i)
      ]_vars

\* The stream record a signature was made over, as a party who signs sees it
\* before the digest is taken; NoStream for a signature made for a missing id.
SignedRecord(signature) ==
    CHOOSE stream \in
        {NoStream} \cup
        [sender : Principals, recipient : Principals,
         balance : 0..MaxDeposits, withdrawn_balance : 0..(MaxRate * MaxBlock),
         payment_per_block : Rates, timeframe : Timeframes] :
        \/ signature.msg = sha256(to_consensus_buff_stream(stream)
                \o to_consensus_buff_uint(signature.payment_per_block)
                \o to_consensus_buff_timeframe(signature.timeframe))
        \/ stream = NoStream /\ signature.msg = sha256_of_zero

\* C34: when a field of the stored record (balance, withdrawn-balance,
\* payment-per-block or timeframe) differs from its value when a signature
\* was made, after a refuel, withdraw, refund or update-details in between,
\* update-details with that signature on its stream returns
\* ERR_INVALID_SIGNATURE for every caller, claimed signer and proposal, and
\* a step that ends in that response changes nothing.
C34_StaleSignatureRejected ==
    /\ [](\A signature \in signatures :
            (/\ signature.stream_id \in DOMAIN streams
             /\ SignedRecord(signature) # streams[signature.stream_id])
            => \A caller \in Principals, signer \in Principals,
                  payment_per_block \in Rates, timeframe \in Timeframes :
                  update_details_response(caller, signature.stream_id,
                                          payment_per_block, timeframe,
                                          signer, signature)
                      = Err(ERR_INVALID_SIGNATURE))
    /\ [][ (last'.op = "update-details" /\ last'.result = Err(ERR_INVALID_SIGNATURE))
             => UNCHANGED <<streams, latest_stream_id, stx>> ]_vars

\* An update-details was just rejected with ERR_INVALID_SIGNATURE while the
\* kept signature was made by a party of the stream over a record with another
\* balance and another withdrawn-balance than the stream has now.
C34_Witness ==
    /\ last.op = "update-details"
    /\ last.result = Err(ERR_INVALID_SIGNATURE)
    /\ \E signature \in signatures :
          /\ signature.stream_id \in DOMAIN streams
          /\ signature.key \in {streams[signature.stream_id].sender,
                                streams[signature.stream_id].recipient}
          /\ SignedRecord(signature) # NoStream
          /\ SignedRecord(signature).balance # streams[signature.stream_id].balance
          /\ SignedRecord(signature).withdrawn_balance
                # streams[signature.stream_id].withdrawn_balance

\* payment-per-block * (stop-block - start-block) of a stored stream.
Schedule(stream_id) ==
    streams[stream_id].payment_per_block
        * (streams[stream_id].timeframe.stop_block
             - streams[stream_id].timeframe.start_block)

\* C36: for a stream that is never updated and whose balance covers its
\* schedule, above stop-block a withdraw by the recipient succeeds and pays
\* what is left of the schedule, a refund by the sender succeeds and pays
\* what is left of the excess, and the stream has never paid its recipient
\* more than the schedule or its sender more than deposits less schedule.
C36_MaturedStreamDrains ==
    \A i \in DOMAIN streams :
        (/\ streams[i].balance >= Schedule(i)
         /\ stacks_block_height > streams[i].timeframe.stop_block)
        => /\ withdraw_response(streams[i].recipient, i)
                 = Ok(Schedule(i) - ledger[i].withdrawn)
           /\ refund_response(streams[i].sender, i)
                 = Ok(ledger[i].deposited - ledger[i].refunded - Schedule(i))
           /\ ledger[i].withdrawn <= Schedule(i)
           /\ ledger[i].refunded <= ledger[i].deposited - Schedule(i)

\* C37: above stop-block withdraw by the recipient and refund by the sender
\* of the same stream commute: a withdraw that commits leaves what refund
\* returns to the sender as it was and writes only withdrawn-balance, and a
\* refund that commits leaves what withdraw returns to the recipient as it
\* was and writes only balance, so that either order pays the same amounts
\* and ends in the same record and the same contract balance.
C37_WithdrawRefundCommute ==
    [][ \A i \in DOMAIN streams :
          (/\ stacks_block_height > streams[i].timeframe.stop_block
           /\ last'.stream_id = i /\ last'.result.kind = "ok"
           /\ (last' # last \/ stx' # stx \/ streams' # streams))
          => /\ (last'.op = "withdraw" /\ last'.caller = streams[i].recipient)
                  => /\ refund_response(streams[i].sender, i)'
                           = refund_response(streams[i].sender, i)
                     /\ streams'[i].balance = streams[i].balance
             /\ (last'.op = "refund" /\ last'.caller = streams[i].sender)
                  => /\ withdraw_response(streams[i].recipient, i)'
                           = withdraw_response(streams[i].recipient, i)
                     /\ streams'[i].withdrawn_balance = streams[i].withdrawn_balance
      ]_vars

\* C38: for every existing stream, at every height, balance-of read for the
\* stream's sender does not fail and returns the stored balance minus the
\* elapsed blocks of the timeframe times payment-per-block, streams whose
\* vested amount exceeds the stored balance included.
C38_SenderBalanceNeverFails ==
    \A i \in DOMAIN streams :
        balance_of_response(i, streams[i].sender)
            = Value(streams[i].balance - Vested(i))

\* C35: a consent signature authorises at most one update-details: once an
\* update-details has committed with a signature and a proposal, the same
\* call with the same signature and the same proposal no longer succeeds.
C35_SignatureUsedOnce ==
    [][ (/\ last'.op = "update-details" /\ last'.result.kind = "ok"
         /\ (last' # last \/ streams' # streams))
        => update_details_response(last.caller, last.stream_id,
               last.signature.payment_per_block, last.signature.timeframe,
               last.signer, last.signature)'.kind # "ok"
      ]_vars

\* C32: in the registration contract a principal that has registered stays
\* registered and keeps its username: every later register by it, whatever
\* the username, fails with ERR_ALREADY_REGISTERED, and a register that
\* fails leaves users and usernames as they were.
C32_RegistrationIsPermanent ==
    /\ [](\A p \in Principals :
            is_registered(p)
            => \A u \in Usernames :
                   register_response(p, u) = Err(ERR_ALREADY_REGISTERED))
    /\ [][  /\ \A p \in Principals :
                 is_registered(p)
                 => /\ is_registered(p)'
                    /\ users'[p] = users[p]
            /\ (tycoon_last'.op = "register" /\ tycoon_last'.result.kind = "err")
                 => UNCHANGED <<users, usernames>>
         ]_vars

\* A registered principal has called register again with a free, valid
\* username of its own choice and has been refused.
C32_Witness ==
    /\ tycoon_last.op = "register"
    /\ tycoon_last.result = Err(ERR_ALREADY_REGISTERED)
    /\ is_registered(tycoon_last.caller)
    /\ Len(tycoon_last.username) > 0
    /\ tycoon_last.username \notin DOMAIN usernames

\* No two principals hold the same username, every stored username has
\* 1..32 characters, and users and usernames are inverses of each other.
UsernamesInverse ==
    /\ \A p, q \in DOMAIN users :
           users[p].username = users[q].username => p = q
    /\ \A p \in DOMAIN users :
           Len(users[p].username) \in 1..MaxUsernameLength
    /\ \A p \in Principals, u \in Usernames :
           (p \in DOMAIN users /\ users[p].username = u)
               <=> (u \in DOMAIN usernames /\ usernames[u] = p)

\* A register refused with ERR_USERNAME_TAKEN changes neither map.
TakenChangesNothing ==
    (tycoon_last'.op = "register" /\ tycoon_last'.result = Err(ERR_USERNAME_TAKEN))
        => UNCHANGED <<users, usernames>>

\* C33: usernames are unique, of length 1..32, and the two maps are
\* inverses; register with a username that another principal holds fails
\* with ERR_USERNAME_TAKEN, whoever calls, and changes nothing.
C33_TakenUsernameRefused ==
    /\ [](/\ UsernamesInverse
          /\ \A p \in Principals, u \in DOMAIN usernames :
                 usernames[u] # p
                 => register_response(p, u) = Err(ERR_USERNAME_TAKEN))
    /\ [][TakenChangesNothing]_vars

\* C33 as it holds: the same, for a caller that is not registered yet; a
\* registered caller is refused with ERR_ALREADY_REGISTERED first.
C33_TakenUsernameRefusedToNewcomer ==
    /\ [](/\ UsernamesInverse
          /\ \A p \in Principals, u \in DOMAIN usernames :
                 (usernames[u] # p /\ ~is_registered(p))
                 => register_response(p, u) = Err(ERR_USERNAME_TAKEN))
    /\ [][TakenChangesNothing]_vars

\* An unregistered principal has asked for a username that another
\* principal holds and has been refused, with two principals registered.
C33_Witness ==
    /\ tycoon_last.op = "register"
    /\ tycoon_last.result = Err(ERR_USERNAME_TAKEN)
    /\ ~is_registered(tycoon_last.caller)
    /\ tycoon_last.username \in DOMAIN usernames
    /\ Cardinality(DOMAIN users) = 2

\* C39: in the wallet hook, after disconnectWallet and until the user
\* connects again, userData and network are null, stxBalance is 0 and
\* tycoonUser is null, whatever pending callbacks run; and in every state
\* network is null exactly when userData is null.
C39_DisconnectStaysReset ==
    /\ intent = "disconnect"
       => /\ userData = NullData
          /\ network = Null
          /\ stxBalance = 0
          /\ tycoonUser = Null
    /\ (network = Null) <=> (userData = NullData)

=============================================================================
